---- MODULE Spec2Model ----
(***************************************************************************)
(* State-machine model of the pizza storefront: the cart slice of the      *)
(* Redux store (cartSlice reducers), the "Add to cart" handler of the menu *)
(* and the order submission pipeline (CreateOrder form, createOrderAction, *)
(* createOrder service), checked as Spec; the user slice with its          *)
(* fetchAddress operation and the address field of the order form, checked *)
(* as SpecUser; the name form of the home page and the loader of the order *)
(* route, checked as SpecRoutes; the asynchronous operations step by step,  *)
(* each external answer apart from the continuation that takes it, checked *)
(* as SpecLive.                                                            *)
(***************************************************************************)
EXTENDS Integers, Sequences, FiniteSets, TLC

(***************************************************************************)
(* Bounds of the model.                                                    *)
(***************************************************************************)
\* longest cart addItem is allowed to build
MaxCartLen == 2
\* |quantity| is kept within -MaxQuantity .. MaxQuantity
MaxQuantity == 2

(***************************************************************************)
(* Input domains.                                                          *)
(***************************************************************************)
\* the pizzas handed to MenuItem ({ id, name, unitPrice, soldOut })
Menu ==
  { [id |-> 12, name |-> "Mediterranean", unitPrice |-> 16, soldOut |-> FALSE],
    [id |-> 6,  name |-> "Vegetale",      unitPrice |-> 13, soldOut |-> FALSE],
    [id |-> 11, name |-> "Spinach and Mushroom", unitPrice |-> 15, soldOut |-> TRUE] }

\* payloads of deleteItem / increaseItemQuantity / decreaseItemQuantity
PizzaIds == { pizza.id : pizza \in Menu }

(***************************************************************************)
(* State.                                                                  *)
(***************************************************************************)
VARIABLES
  cart,           \* state.cart.cart: the sequence of cart items
  dispatchError,  \* what the last store.dispatch threw ("none" when it returned)
  navigation,     \* navigation.state of the router: "idle" or "submitting"
  request,        \* form data of the last submitted request (NoRequest before any)
  apiCalls,       \* bodies POSTed to {API_URL}/order by the current submission
  response,       \* what the API answered to the current submission
  actionResult,   \* how createOrderAction ended: the entries of the errors object,
                  \* of the redirect (location) or of the thrown Error (message)
  user,           \* state.user: username, status, position, address, error
  thunks,         \* the fetchAddress operations in flight, oldest first
  typedAddress,   \* what the user last typed into <input name="address">
  location,       \* the path of the page the router shows
  usernameInput,  \* the local state `username` of CreateUser
  navigatedWith,  \* state.user.username at the time of the last navigate()
  orderLoad       \* the order route: its pending loader and what it ended with

vars == <<cart, dispatchError, navigation, request, apiCalls, response, actionResult,
          user, thunks, typedAddress,
          location, usernameInput, navigatedWith, orderLoad>>

userVars == <<user, thunks, typedAddress>>

routeVars == <<location, usernameInput, navigatedWith, orderLoad>>

orderVars == <<navigation, request, apiCalls, response, actionResult>>

(***************************************************************************)
(* cartSlice reducers.                                                     *)
(***************************************************************************)
\* initialState of the cart slice
initialState == [cart |-> <<>>]

\* a find that returns the last match
find_last(c, pizzaId) ==
  IF \E i \in DOMAIN c : c[i].pizzaId = pizzaId
  THEN CHOOSE i \in DOMAIN c :
         /\ c[i].pizzaId = pizzaId
         /\ \A j \in DOMAIN c : c[j].pizzaId = pizzaId => i >= j
  ELSE 0

\* Array.prototype.find on item.pizzaId === payload: index of the first
\* match, 0 when there is none (find returns undefined)
find(c, pizzaId) ==
  IF \E i \in DOMAIN c : c[i].pizzaId = pizzaId
  THEN CHOOSE i \in DOMAIN c :
         /\ c[i].pizzaId = pizzaId
         /\ \A j \in DOMAIN c : c[j].pizzaId = pizzaId => i <= j
  ELSE 0

addItem(c, payload) == Append(c, payload)

\* deleteItem that removes the first match only
deleteItem_first(c, payload) ==
  LET i == find(c, payload)
  IN  IF i = 0 THEN c ELSE SubSeq(c, 1, i - 1) \o SubSeq(c, i + 1, Len(c))

deleteItem(c, payload) ==
  LET keep(item) == item.pizzaId # payload
  IN  SelectSeq(c, keep)

\* increaseItemQuantity without the totalPrice assignment
increaseItemQuantity_stale(c, payload) ==
  LET i == find(c, payload)
  IN  [c EXCEPT ![i] = [@ EXCEPT !.quantity = @ + 1]]

increaseItemQuantity(c, payload) ==
  LET i == find(c, payload)
      quantity == c[i].quantity + 1
  IN  [c EXCEPT ![i] = [@ EXCEPT !.quantity = quantity,
                                 !.totalPrice = quantity * c[i].unitPrice]]

decreaseItemQuantity(c, payload) ==
  LET i == find(c, payload)
      quantity == c[i].quantity - 1
  IN  [c EXCEPT ![i] = [@ EXCEPT !.quantity = quantity,
                                 !.totalPrice = quantity * c[i].unitPrice]]

\* clearCart that leaves the state as it is
clearCart_noop(c) == c

clearCart(c) == <<>>

\* MenuItem.handleAddToCart: the item built from the pizza
newItem(pizza) ==
  [pizzaId |-> pizza.id, name |-> pizza.name, quantity |-> 1,
   unitPrice |-> pizza.unitPrice, totalPrice |-> pizza.unitPrice * 1]

(***************************************************************************)
(* Selectors of the cart slice.                                            *)
(***************************************************************************)
\* the full Redux state handed to a selector, for the cart c
stateOf(c) == [cart |-> [cart |-> c]]

\* Array.prototype.reduce((sum, item) => sum + item.quantity, sum) from
\* element i on
RECURSIVE reduceQuantity(_, _, _)
reduceQuantity(c, i, sum) ==
  IF i > Len(c) THEN sum ELSE reduceQuantity(c, i + 1, sum + c[i].quantity)

\* Array.prototype.reduce((sum, item) => sum + item.totalPrice, sum) from
\* element i on
RECURSIVE reduceTotalPrice(_, _, _)
reduceTotalPrice(c, i, sum) ==
  IF i > Len(c) THEN sum ELSE reduceTotalPrice(c, i + 1, sum + c[i].totalPrice)

getTotalCartQuantity(state) == reduceQuantity(state.cart.cart, 1, 0)

\* getTotalCartPrice that adds up the unit prices
getTotalCartPrice_unitPrice(state) ==
  LET c == state.cart.cart
      unit == [i \in DOMAIN c |-> [c[i] EXCEPT !.totalPrice = c[i].unitPrice]]
  IN  reduceTotalPrice(unit, 1, 0)

getTotalCartPrice(state) == reduceTotalPrice(state.cart.cart, 1, 0)

getCart(state) == state.cart.cart

\* getIsCartEmpty: state.cart.cart.length === 0
getIsCartEmpty(state) == Len(state.cart.cart) = 0

\* CartOverview: if (!totalCartQuantity) return null
cartOverviewHidden(state) == getTotalCartQuantity(state) = 0

(***************************************************************************)
(* isValidPhone: the phone regular expression, matched as the regex engine *)
(* does (every split of the input over the quantified elements is tried).  *)
(***************************************************************************)
Digits == {"0", "1", "2", "3", "4", "5", "6", "7", "8", "9"}

\* [-.\s]
Separators == {"-", ".", " "}

\* ^\+?\d{1,4}?[-.\s]?\(?\d{1,3}?\)?[-.\s]?\d{1,4}[-.\s]?\d{1,4}[-.\s]?\d{1,9}$
phoneRegex ==
  << [class |-> {"+"},      min |-> 0, max |-> 1],
     [class |-> Digits,     min |-> 1, max |-> 4],
     [class |-> Separators, min |-> 0, max |-> 1],
     [class |-> {"("},      min |-> 0, max |-> 1],
     [class |-> Digits,     min |-> 1, max |-> 3],
     [class |-> {")"},      min |-> 0, max |-> 1],
     [class |-> Separators, min |-> 0, max |-> 1],
     [class |-> Digits,     min |-> 1, max |-> 4],
     [class |-> Separators, min |-> 0, max |-> 1],
     [class |-> Digits,     min |-> 1, max |-> 4],
     [class |-> Separators, min |-> 0, max |-> 1],
     [class |-> Digits,     min |-> 1, max |-> 9] >>

\* the offsets one regex element can reach from the offsets in from
regexStep(str, from, element) ==
  UNION { { p + n : n \in { m \in element.min .. element.max :
                              /\ p + m <= Len(str)
                              /\ \A k \in 1 .. m : str[p + k] \in element.class } }
          : p \in from }

RECURSIVE regexReach(_, _, _)
regexReach(str, from, k) ==
  IF k > Len(phoneRegex) THEN from
  ELSE regexReach(str, regexStep(str, from, phoneRegex[k]), k + 1)

\* RegExp.prototype.test with the ^ and $ anchors
isValidPhone(str) == Len(str) \in regexReach(str, {0}, 1)

(***************************************************************************)
(* JSON.stringify / JSON.parse of a cart, over JSON tokens.  Numbers are   *)
(* written as decimal digits and read back from them.                      *)
(***************************************************************************)
punct(c) == [t |-> "punct", v |-> c]
jsonString(s) == [t |-> "str", v |-> s]

digitChar(d) == <<"0", "1", "2", "3", "4", "5", "6", "7", "8", "9">>[d + 1]

digitValue(c) == CHOOSE d \in 0 .. 9 : digitChar(d) = c

RECURSIVE digitsOf(_)
digitsOf(n) ==
  IF n < 10 THEN <<digitChar(n)>>
  ELSE digitsOf(n \div 10) \o <<digitChar(n % 10)>>

\* numberToString that loses the sign
numberToString_unsigned(n) == IF n < 0 THEN digitsOf(0 - n) ELSE digitsOf(n)

\* Number -> its JSON text
numberToString(n) == IF n < 0 THEN <<"-">> \o digitsOf(0 - n) ELSE digitsOf(n)

RECURSIVE valueOfDigits(_)
valueOfDigits(s) ==
  IF Len(s) = 0 THEN 0
  ELSE 10 * valueOfDigits(SubSeq(s, 1, Len(s) - 1)) + digitValue(s[Len(s)])

\* JSON number text -> Number
stringToNumber(s) ==
  IF s[1] = "-" THEN 0 - valueOfDigits(Tail(s)) ELSE valueOfDigits(s)

jsonNumber(n) == [t |-> "num", v |-> numberToString(n)]

\* one cart item as a JSON object, keys in insertion order
stringifyItem(item) ==
  << punct("{"),
     jsonString("pizzaId"),    punct(":"), jsonNumber(item.pizzaId),   punct(","),
     jsonString("name"),       punct(":"), jsonString(item.name),      punct(","),
     jsonString("quantity"),   punct(":"), jsonNumber(item.quantity),  punct(","),
     jsonString("unitPrice"),  punct(":"), jsonNumber(item.unitPrice), punct(","),
     jsonString("totalPrice"), punct(":"), jsonNumber(item.totalPrice),
     punct("}") >>

RECURSIVE stringifyItems(_, _)
stringifyItems(c, i) ==
  IF i > Len(c) THEN <<>>
  ELSE (IF i > 1 THEN <<punct(",")>> ELSE <<>>)
         \o stringifyItem(c[i]) \o stringifyItems(c, i + 1)

\* JSON.stringify(cart)
JSONstringify(c) == <<punct("[")>> \o stringifyItems(c, 1) \o <<punct("]")>>

isPunct(tok, c) == tok.t = "punct" /\ tok.v = c

parseValue(tok) == IF tok.t = "num" THEN stringToNumber(tok.v) ELSE tok.v

\* the members of an object from token i (a key) up to the closing brace
RECURSIVE parseMembers(_, _)
parseMembers(toks, i) ==
  LET member == toks[i].v :> parseValue(toks[i + 2])
  IN  IF isPunct(toks[i + 3], ",")
      THEN LET rest == parseMembers(toks, i + 4)
           IN  [value |-> member @@ rest.value, next |-> rest.next]
      ELSE [value |-> member, next |-> i + 4]

\* the elements of an array from token i (an opening brace) up to the bracket
RECURSIVE parseElements(_, _)
parseElements(toks, i) ==
  LET object == parseMembers(toks, i + 1)
  IN  IF isPunct(toks[object.next], ",")
      THEN <<object.value>> \o parseElements(toks, object.next + 1)
      ELSE <<object.value>>

\* JSON.parse(data.cart)
JSONparse(toks) ==
  IF isPunct(toks[2], "]") THEN <<>> ELSE parseElements(toks, 2)

(***************************************************************************)
(* The order form (CreateOrder) and its inputs.                            *)
(***************************************************************************)
\* the cart the CreateOrder component serializes into the hidden input
fakeCart ==
  << [pizzaId |-> 12, name |-> "Mediterranean", quantity |-> 2,
      unitPrice |-> 16, totalPrice |-> 32],
     [pizzaId |-> 6, name |-> "Vegetale", quantity |-> 1,
      unitPrice |-> 13, totalPrice |-> 13],
     [pizzaId |-> 11, name |-> "Spinach and Mushroom", quantity |-> 1,
      unitPrice |-> 15, totalPrice |-> 15] >>

\* values typed into <input name="customer"> and <input name="address">
Customers == {"Ana"}
Addresses == {"1 Main St"}

\* values typed into <input type="tel" name="phone">
PhoneInputs ==
  { <<"1", "2", "3">>,
    <<"1", "2", "3", "4", "5">>,
    <<"+", "1", "-", "5", "5", "5", "-", "1", "2", "3", "-", "4", "5", "6", "7">>,
    <<"(", "5", "5", "5", ")", "1", "2", "3", "4", "5">>,
    <<"1", "-", "-", "2", "3", "4", "5">> }

\* ids the server assigns to created orders
OrderIds == {"ORD-1", "ORD-2"}

\* how the POST to {API_URL}/order can end
ApiOutcomes ==
  { [type |-> "ok", id |-> id] : id \in OrderIds }
    \cup { [type |-> t, id |-> ""] : t \in {"notOk", "networkError", "badJson"} }

NoResponse == [type |-> "none", id |-> ""]

\* value of <input type="hidden" name="cart">
hiddenCartValue == JSONstringify(fakeCart)

\* Object.fromEntries(formData) of the submitted <Form>: an unchecked
\* checkbox contributes no entry
formData(customer, phone, address, priorityChecked) ==
  IF priorityChecked
  THEN [customer |-> customer, phone |-> phone, address |-> address,
        cart |-> hiddenCartValue, priority |-> "on"]
  ELSE [customer |-> customer, phone |-> phone, address |-> address,
        cart |-> hiddenCartValue]

(***************************************************************************)
(* services/apiRestaurant.js: createOrder.                                 *)
(***************************************************************************)
\* createOrder whose catch block swallows the failure and returns an object
createOrder_swallow(outcome) ==
  IF outcome.type = "ok"
  THEN [threw |-> FALSE, value |-> [id |-> outcome.id]]
  ELSE [threw |-> FALSE, value |-> [id |-> "undefined"]]

\* the result of the awaited createOrder(newOrder) once fetch has settled
createOrder(outcome) ==
  IF outcome.type = "ok"
  THEN [threw |-> FALSE, value |-> [id |-> outcome.id]]
  ELSE [threw |-> TRUE, value |-> "Failed creating your order"]

(***************************************************************************)
(* createOrderAction.                                                      *)
(***************************************************************************)
phoneMessage ==
  "Please give us your correct phone number. We might need it to contact you"

\* an order whose priority is true for every priority value that is present
orderOf_present(data) ==
  [customer |-> data.customer, phone |-> data.phone, address |-> data.address,
   cart |-> JSONparse(data.cart),
   priority |-> ("priority" \in DOMAIN data)]

\* const order = { ...data, cart: JSON.parse(data.cart), priority: data.priority === "on" }
orderOf(data) ==
  [customer |-> data.customer, phone |-> data.phone, address |-> data.address,
   cart |-> JSONparse(data.cart),
   priority |-> ("priority" \in DOMAIN data /\ data["priority"] = "on")]

\* the errors object after the guard: a set of <<field, message>> entries
errorsOf(order) ==
  IF ~isValidPhone(order.phone) THEN {<<"phone", phoneMessage>>} ELSE {}

\* the guard dropped: the action never returns the errors
hasErrors_never(errors) == FALSE

\* Object.keys(errors).length > 0
hasErrors(errors) == Cardinality(errors) > 0

\* redirect that loses the order id
redirect_noId(id) == "/order/" \o "undefined"

\* redirect(`/order/${newOrder.id}`)
redirect(id) == "/order/" \o id

\* createOrderAction from the form data up to the await of createOrder
createOrderAction_start(data) ==
  LET order == orderOf(data)
      errors == errorsOf(order)
  IN  IF hasErrors(errors)
      THEN [navigation |-> "idle", apiCalls |-> <<>>,
            actionResult |-> [kind |-> "errors", value |-> errors]]
      ELSE [navigation |-> "submitting", apiCalls |-> <<order>>,
            actionResult |-> [kind |-> "none", value |-> {}]]

\* a createOrderAction that calls createOrder again when the call failed
createOrderAction_resume_retry(calls, outcome) ==
  LET newOrder == createOrder(outcome)
  IN  IF newOrder.threw
      THEN [navigation |-> "submitting", apiCalls |-> Append(calls, calls[1]),
            actionResult |-> [kind |-> "none", value |-> {}]]
      ELSE [navigation |-> "idle", apiCalls |-> calls,
            actionResult |-> [kind |-> "redirect",
                             value |-> {<<"location", redirect(newOrder.value.id)>>}]]

\* createOrderAction after the await: the rejection of createOrder is not
\* caught, otherwise the action returns the redirect
createOrderAction_resume(calls, outcome) ==
  LET newOrder == createOrder(outcome)
  IN  IF newOrder.threw
      THEN [navigation |-> "idle", apiCalls |-> calls,
            actionResult |-> [kind |-> "thrown",
                             value |-> {<<"message", newOrder.value>>}]]
      ELSE [navigation |-> "idle", apiCalls |-> calls,
            actionResult |-> [kind |-> "redirect",
                             value |-> {<<"location", redirect(newOrder.value.id)>>}]]

(***************************************************************************)
(* The user slice: updateName, and the fetchAddress operation with its     *)
(* pending / fulfilled / rejected transitions.  An object ({} or           *)
(* { latitude, longitude }) is the set of its <<key, value>> entries.      *)
(***************************************************************************)
\* initialState of the user slice
initialStateUser ==
  [username |-> "", status |-> "idle", position |-> {}, address |-> "", error |-> ""]

updateName(state, payload) == [state EXCEPT !.username = payload]

\* a pending transition that keeps the error of the earlier attempt
fetchAddressPending_keepsError(state) == [state EXCEPT !.status = "loading"]

\* fetchAddress starts: status = loading, the earlier error is cleared
fetchAddressPending(state) == [state EXCEPT !.status = "loading", !.error = ""]

\* a fulfilled transition that stores the latitude only
fetchAddressFulfilled_latitudeOnly(state, payload) ==
  [state EXCEPT !.status = "success",
                !.position = { e \in payload.position : e[1] = "latitude" },
                !.address = payload.address]

\* geolocation and reverse geocoding succeeded: status = success, position
\* and address are stored
fetchAddressFulfilled(state, payload) ==
  [state EXCEPT !.status = "success",
                !.position = payload.position,
                !.address = payload.address]

\* a rejected transition that goes back to idle without a message
fetchAddressRejected_idle(state, message) == [state EXCEPT !.status = "idle"]

\* geolocation or reverse geocoding failed: status = error, message stored
fetchAddressRejected(state, message) ==
  [state EXCEPT !.status = "error", !.error = message]

\* positions the device can report
GeoPositions ==
  { {<<"latitude", 51>>, <<"longitude", 4>>},
    {<<"latitude", 40>>, <<"longitude", 0 - 74>>} }

\* how acquirePosition() can end
AcquirePositionOutcomes ==
  { [ok |-> TRUE, position |-> p, message |-> ""] : p \in GeoPositions }
    \cup { [ok |-> FALSE, position |-> {}, message |-> m]
            : m \in {"User denied geolocation", "Position unavailable"} }

\* how reverseGeocode(lat, lon) can end
ReverseGeocodeOutcomes ==
  { [ok |-> TRUE, address |-> a, message |-> ""]
      : a \in {"Main St 1, Springfield", "Side Rd 2, Shelbyville"} }
    \cup { [ok |-> FALSE, address |-> "", message |-> "Failed getting address"] }

\* a fetchAddress operation that has just been started
newThunk == [stage |-> "acquirePosition", position |-> {}]

\* the sequence s without its element i
removeAt(s, i) == SubSeq(s, 1, i - 1) \o SubSeq(s, i + 1, Len(s))

(***************************************************************************)
(* The address part of the order form.                                     *)
(***************************************************************************)
\* position.latitude / position.longitude as a condition: the key is there
\* and its value is not 0
truthy(object, key) == \E e \in object : e[1] = key /\ e[2] # 0

\* const isLoadingAddress = addressStatus === "loading"
isLoadingAddress(u) == u.status = "loading"

\* a "Get position" button that is shown only before the first fetch
getPositionButtonShown_whenIdle(u) == u.status = "idle"

\* !position.latitude && !position.longitude
getPositionButtonShown(u) ==
  ~truthy(u.position, "latitude") /\ ~truthy(u.position, "longitude")

\* a "Get position" button that stays enabled during the fetch
getPositionButtonDisabled_never(u) == FALSE

\* <Button disabled={isLoadingAddress}>
getPositionButtonDisabled(u) == isLoadingAddress(u)

\* an address input that is enabled only once the fetch has succeeded or
\* was never started
addressInputDisabled_afterError(u) == u.status \in {"loading", "error"}

\* <input name="address" disabled={isLoadingAddress}>
addressInputDisabled(u) == isLoadingAddress(u)

\* addressStatus === "error" && <p>{errorAddress}</p>
errorShown(u) == u.status = "error"

\* texts the user types into the address input
AddressTexts == {"", "1 Main St", "2 Side Rd"}

\* names dispatched with updateName
Names == {"Ana", "Bo", "Cy"}

(***************************************************************************)
(* The name form of the home page (CreateUser).  handleSubmit is the list  *)
(* of the effects it performs, in the order of its statements.             *)
(***************************************************************************)
\* a handleSubmit that navigates before it dispatches
handleSubmit_navigateFirst(username) ==
  IF username = ""
  THEN <<>>
  ELSE << [type |-> "navigate", payload |-> "/menu"],
          [type |-> "dispatch", payload |-> username] >>

\* if (!username) return; dispatch(updateName(username)); navigate("/menu")
handleSubmit(username) ==
  IF username = ""
  THEN <<>>
  ELSE << [type |-> "dispatch", payload |-> username],
          [type |-> "navigate", payload |-> "/menu"] >>

\* one statement of the handler, run on the store and the router
runEffect(s, effect) ==
  IF effect.type = "dispatch"
  THEN [s EXCEPT !.user = updateName(s.user, effect.payload)]
  ELSE [s EXCEPT !.location = effect.payload,
                 !.navigatedWith = s.user.username]

RECURSIVE runEffects(_, _, _)
runEffects(s, effects, i) ==
  IF i > Len(effects) THEN s
  ELSE runEffects(runEffect(s, effects[i]), effects, i + 1)

\* texts the user types into the name input
NameTexts == {"", "Ana", "Bo"}

(***************************************************************************)
(* The order route: OrderLoader and getOrder.                              *)
(***************************************************************************)
\* params.orderId of the routes visited
RouteOrderIds == {"ORD-1", "XYZ"}

\* messages of the TypeError that fetch rejects with, by browser
NetworkErrorMessages == {"Failed to fetch", "Load failed"}

\* the order the API holds under an id
orderData(id, priority) == [id |-> id, status |-> "preparing", priority |-> priority]

\* how fetch(`${API_URL}/order/${id}`) can end for an id
GetOrderOutcomes(id) ==
  { [t |-> "rejected", status |-> 0, message |-> m, data |-> <<>>]
      : m \in NetworkErrorMessages }
    \cup { [t |-> "response", status |-> st, message |-> "", data |-> <<>>]
            : st \in {404, 500} }
    \cup { [t |-> "response", status |-> 200, message |-> "",
            data |-> <<orderData(id, pr)>>] : pr \in BOOLEAN }

\* res.ok
ok(res) == res.status >= 200 /\ res.status <= 299

\* a getOrder that does not look at res.ok
getOrder_noOkCheck(id, outcome) ==
  IF outcome.t = "rejected"
  THEN [kind |-> "throw", name |-> "TypeError", message |-> outcome.message,
        data |-> <<>>]
  ELSE [kind |-> "return", name |-> "", message |-> "", data |-> outcome.data]

\* getOrder(id): the rejection of fetch propagates; a response that is not
\* ok throws Error(`Couldn't find order #${id}`); else the data is returned
getOrder(id, outcome) ==
  IF outcome.t = "rejected"
  THEN [kind |-> "throw", name |-> "TypeError", message |-> outcome.message,
        data |-> <<>>]
  ELSE IF ~ok(outcome)
  THEN [kind |-> "throw", name |-> "Error",
        message |-> "Couldn't find order #" \o id, data |-> <<>>]
  ELSE [kind |-> "return", name |-> "", message |-> "", data |-> outcome.data]

\* OrderLoader({ params }): returns what getOrder returns, throws what it throws
OrderLoader(params, outcome) == getOrder(params.orderId, outcome)

\* no load of the order route so far
NoLoad ==
  [state |-> "idle", orderId |-> "",
   result |-> [kind |-> "none", name |-> "", message |-> "", data |-> <<>>]]

(***************************************************************************)
(* Initial state and actions.                                              *)
(***************************************************************************)
Init ==
  /\ cart = initialState.cart
  /\ dispatchError = "none"
  /\ navigation = "idle"
  /\ request = <<>>
  /\ apiCalls = <<>>
  /\ response = NoResponse
  /\ actionResult = [kind |-> "none", value |-> {}]
  /\ user = initialStateUser
  /\ thunks = <<>>
  /\ typedAddress = ""
  /\ location = "/"
  /\ usernameInput = ""
  /\ navigatedWith = ""
  /\ orderLoad = NoLoad

\* an "Add to cart" that is rendered for every pizza
HandleAddToCart_soldOut(pizza) ==
  /\ Len(cart) < MaxCartLen
  /\ cart' = addItem(cart, newItem(pizza))
  /\ dispatchError' = "none"
  /\ UNCHANGED orderVars
  /\ UNCHANGED userVars
  /\ UNCHANGED routeVars

\* "Add to cart" of a MenuItem: rendered only when the pizza is not sold out
HandleAddToCart(pizza) ==
  /\ ~pizza.soldOut
  /\ Len(cart) < MaxCartLen
  /\ cart' = addItem(cart, newItem(pizza))
  /\ dispatchError' = "none"
  /\ UNCHANGED orderVars
  /\ UNCHANGED userVars
  /\ UNCHANGED routeVars

\* dispatch(deleteItem(pizzaId))
DeleteItem(pizzaId) ==
  /\ cart' = deleteItem(cart, pizzaId)
  /\ dispatchError' = "none"
  /\ UNCHANGED orderVars
  /\ UNCHANGED userVars
  /\ UNCHANGED routeVars

\* an increaseItemQuantity that falls back to the first item of the cart
\* when no item has the pizzaId
IncreaseItemQuantity_fallback(pizzaId) ==
  /\ IF find(cart, pizzaId) = 0
     THEN /\ Len(cart) > 0
          /\ cart[1].quantity < MaxQuantity
          /\ cart' = increaseItemQuantity(cart, cart[1].pizzaId)
          /\ dispatchError' = "none"
     ELSE /\ cart[find(cart, pizzaId)].quantity < MaxQuantity
          /\ cart' = increaseItemQuantity(cart, pizzaId)
          /\ dispatchError' = "none"
  /\ UNCHANGED orderVars
  /\ UNCHANGED userVars
  /\ UNCHANGED routeVars

\* dispatch(increaseItemQuantity(pizzaId)); with no such item the reducer
\* throws on item.quantity and the store keeps its state
IncreaseItemQuantity(pizzaId) ==
  /\ IF find(cart, pizzaId) = 0
     THEN /\ dispatchError' = "TypeError"
          /\ UNCHANGED cart
     ELSE /\ cart[find(cart, pizzaId)].quantity < MaxQuantity
          /\ cart' = increaseItemQuantity(cart, pizzaId)
          /\ dispatchError' = "none"
  /\ UNCHANGED orderVars
  /\ UNCHANGED userVars
  /\ UNCHANGED routeVars

\* dispatch(decreaseItemQuantity(pizzaId))
DecreaseItemQuantity(pizzaId) ==
  /\ IF find(cart, pizzaId) = 0
     THEN /\ dispatchError' = "TypeError"
          /\ UNCHANGED cart
     ELSE /\ cart[find(cart, pizzaId)].quantity > 0 - MaxQuantity
          /\ cart' = decreaseItemQuantity(cart, pizzaId)
          /\ dispatchError' = "none"
  /\ UNCHANGED orderVars
  /\ UNCHANGED userVars
  /\ UNCHANGED routeVars

\* dispatch(clearCart())
ClearCart ==
  /\ cart' = clearCart(cart)
  /\ dispatchError' = "none"
  /\ UNCHANGED orderVars
  /\ UNCHANGED userVars
  /\ UNCHANGED routeVars

\* const isSubmiting = navigation.state === "submitting"
isSubmiting == navigation = "submitting"

\* a form that can be submitted again while its submission is pending
SubmitOrder_whilePending(customer, phone, address, priorityChecked) ==
  /\ \E data \in {formData(customer, phone, address, priorityChecked)} :
       \E next \in {createOrderAction_start(data)} :
         /\ request' = <<data>>
         /\ navigation' = next.navigation
         /\ apiCalls' = next.apiCalls
         /\ actionResult' = next.actionResult
  /\ response' = NoResponse
  /\ UNCHANGED <<cart, dispatchError>>
  /\ UNCHANGED userVars
  /\ UNCHANGED routeVars

\* the user submits the order form (the button is disabled while submitting);
\* createOrderAction runs up to its await
SubmitOrder(customer, phone, address, priorityChecked) ==
  /\ navigation = "idle"
  /\ \E data \in {formData(customer, phone, address, priorityChecked)} :
       \E next \in {createOrderAction_start(data)} :
         /\ request' = <<data>>
         /\ navigation' = next.navigation
         /\ apiCalls' = next.apiCalls
         /\ actionResult' = next.actionResult
  /\ response' = NoResponse
  /\ UNCHANGED <<cart, dispatchError>>
  /\ UNCHANGED userVars
  /\ UNCHANGED routeVars

\* the POST settles and createOrderAction runs to its end
CreateOrderSettles(outcome) ==
  /\ navigation = "submitting"
  /\ \E next \in {createOrderAction_resume(apiCalls, outcome)} :
         /\ navigation' = next.navigation
         /\ apiCalls' = next.apiCalls
         /\ actionResult' = next.actionResult
  /\ response' = outcome
  /\ UNCHANGED <<cart, dispatchError, request>>
  /\ UNCHANGED userVars
  /\ UNCHANGED routeVars

Next ==
  \/ \E pizza \in Menu : HandleAddToCart(pizza)
  \/ \E pizzaId \in PizzaIds : DeleteItem(pizzaId)
  \/ \E pizzaId \in PizzaIds : IncreaseItemQuantity(pizzaId)
  \/ \E pizzaId \in PizzaIds : DecreaseItemQuantity(pizzaId)
  \/ ClearCart
  \/ \E customer \in Customers, phone \in PhoneInputs, address \in Addresses,
        priorityChecked \in BOOLEAN :
       SubmitOrder(customer, phone, address, priorityChecked)
  \/ \E outcome \in ApiOutcomes : CreateOrderSettles(outcome)

Spec == Init /\ [][Next]_vars

cartOrderVars ==
  <<cart, dispatchError, navigation, request, apiCalls, response, actionResult>>

\* an updateName that also empties the cart
UpdateName_resetsCart(name) ==
  /\ user' = updateName(user, name)
  /\ cart' = <<>>
  /\ UNCHANGED <<thunks, typedAddress>>
  /\ UNCHANGED <<dispatchError, navigation, request, apiCalls, response, actionResult>>
  /\ UNCHANGED routeVars

\* dispatch(updateName(name))
UpdateName(name) ==
  /\ user' = updateName(user, name)
  /\ UNCHANGED <<thunks, typedAddress>>
  /\ UNCHANGED cartOrderVars
  /\ UNCHANGED routeVars

\* click on "Get position" (shown without a position, disabled while
\* loading): dispatch(fetchAddress()) up to its first await
FetchAddress ==
  /\ getPositionButtonShown(user)
  /\ ~getPositionButtonDisabled(user)
  /\ user' = fetchAddressPending(user)
  /\ thunks' = Append(thunks, newThunk)
  /\ UNCHANGED typedAddress
  /\ UNCHANGED cartOrderVars
  /\ UNCHANGED routeVars

\* the device answers the geolocation request of operation i
AcquirePositionSettles(i, outcome) ==
  /\ i \in DOMAIN thunks
  /\ thunks[i].stage = "acquirePosition"
  /\ IF outcome.ok
     THEN /\ thunks' = [thunks EXCEPT ![i] = [stage |-> "reverseGeocode",
                                              position |-> outcome.position]]
          /\ UNCHANGED user
     ELSE /\ thunks' = removeAt(thunks, i)
          /\ user' = fetchAddressRejected(user, outcome.message)
  /\ UNCHANGED typedAddress
  /\ UNCHANGED cartOrderVars
  /\ UNCHANGED routeVars

\* the geocoding service answers operation i
ReverseGeocodeSettles(i, outcome) ==
  /\ i \in DOMAIN thunks
  /\ thunks[i].stage = "reverseGeocode"
  /\ thunks' = removeAt(thunks, i)
  /\ IF outcome.ok
     THEN user' = fetchAddressFulfilled(user, [position |-> thunks[i].position,
                                               address |-> outcome.address])
     ELSE user' = fetchAddressRejected(user, outcome.message)
  /\ UNCHANGED typedAddress
  /\ UNCHANGED cartOrderVars
  /\ UNCHANGED routeVars

\* the user types into the address input, which takes input unless disabled
TypeAddress(text) ==
  /\ ~addressInputDisabled(user)
  /\ typedAddress' = text
  /\ UNCHANGED <<user, thunks>>
  /\ UNCHANGED cartOrderVars
  /\ UNCHANGED routeVars

NextUser ==
  \/ \E name \in Names : UpdateName(name)
  \/ FetchAddress
  \/ \E i \in DOMAIN thunks, outcome \in AcquirePositionOutcomes :
       AcquirePositionSettles(i, outcome)
  \/ \E i \in DOMAIN thunks, outcome \in ReverseGeocodeOutcomes :
       ReverseGeocodeSettles(i, outcome)
  \/ \E text \in AddressTexts : TypeAddress(text)

SpecUser == Init /\ [][NextUser]_vars

\* onChange of the name input: setUsername(e.target.value)
TypeName(text) ==
  /\ location = "/"
  /\ usernameInput' = text
  /\ UNCHANGED <<location, navigatedWith, orderLoad>>
  /\ UNCHANGED userVars
  /\ UNCHANGED cartOrderVars

\* onSubmit of the name form
SubmitName ==
  /\ location = "/"
  /\ \E s \in { runEffects([user |-> user, location |-> location,
                             navigatedWith |-> navigatedWith],
                            handleSubmit(usernameInput), 1) } :
       /\ user' = s.user
       /\ location' = s.location
       /\ navigatedWith' = s.navigatedWith
  /\ UNCHANGED <<usernameInput, orderLoad>>
  /\ UNCHANGED <<thunks, typedAddress>>
  /\ UNCHANGED cartOrderVars

\* a link back to the home page; CreateUser mounts with an empty input
GoHome ==
  /\ location # "/"
  /\ location' = "/"
  /\ usernameInput' = ""
  /\ UNCHANGED <<navigatedWith, orderLoad>>
  /\ UNCHANGED userVars
  /\ UNCHANGED cartOrderVars

\* a visit of /order/:orderId starts OrderLoader; a pending load is dropped
NavigateToOrder(id) ==
  /\ orderLoad' = [NoLoad EXCEPT !.state = "loading", !.orderId = id]
  /\ UNCHANGED <<location, usernameInput, navigatedWith>>
  /\ UNCHANGED userVars
  /\ UNCHANGED cartOrderVars

\* the API answers the loader: the order page, or the route's errorElement
GetOrderSettles(outcome) ==
  /\ orderLoad.state = "loading"
  /\ outcome \in GetOrderOutcomes(orderLoad.orderId)
  /\ orderLoad' = [orderLoad EXCEPT
                     !.state = "idle",
                     !.result = OrderLoader([orderId |-> orderLoad.orderId], outcome)]
  /\ location' = "/order/" \o orderLoad.orderId
  /\ UNCHANGED <<usernameInput, navigatedWith>>
  /\ UNCHANGED userVars
  /\ UNCHANGED cartOrderVars

AllGetOrderOutcomes == UNION { GetOrderOutcomes(id) : id \in RouteOrderIds }

NextRoutes ==
  \/ \E text \in NameTexts : TypeName(text)
  \/ SubmitName
  \/ GoHome
  \/ \E id \in RouteOrderIds : NavigateToOrder(id)
  \/ \E outcome \in AllGetOrderOutcomes : GetOrderSettles(outcome)

SpecRoutes == Init /\ [][NextRoutes]_vars

\* the one order form and the one name of a session
SessionPhones == { phone \in PhoneInputs : Len(phone) = 5 }

SessionNames == { name \in Names : name = "Ana" }

\* one session: the cart, the order form and the user slice side by side
NextSession ==
  \/ \E pizza \in Menu : HandleAddToCart(pizza)
  \/ \E pizzaId \in PizzaIds : DeleteItem(pizzaId)
  \/ \E pizzaId \in PizzaIds : IncreaseItemQuantity(pizzaId)
  \/ \E pizzaId \in PizzaIds : DecreaseItemQuantity(pizzaId)
  \/ ClearCart
  \/ \E customer \in Customers, phone \in SessionPhones, address \in Addresses :
       SubmitOrder(customer, phone, address, FALSE)
  \/ \E outcome \in ApiOutcomes : CreateOrderSettles(outcome)
  \/ \E name \in SessionNames : UpdateName(name)
  \/ FetchAddress
  \/ \E i \in DOMAIN thunks, outcome \in AcquirePositionOutcomes :
       AcquirePositionSettles(i, outcome)
  \/ \E i \in DOMAIN thunks, outcome \in ReverseGeocodeOutcomes :
       ReverseGeocodeSettles(i, outcome)

SpecSession == Init /\ [][NextSession]_vars

(***************************************************************************)
(* The asynchronous operations in two steps each: the external service     *)
(* answers (or never does), then the awaiting code resumes with the answer.*)
(***************************************************************************)
\* the device answers the geolocation request of operation i
GeolocationAnswers(i) ==
  /\ i \in DOMAIN thunks
  /\ thunks[i].stage = "acquirePosition"
  /\ thunks' = [thunks EXCEPT ![i].stage = "positionAnswered"]
  /\ UNCHANGED <<user, typedAddress>>
  /\ UNCHANGED cartOrderVars
  /\ UNCHANGED routeVars

\* fetchAddress resumes with the answer of the device
FetchAddressAfterPosition(i, outcome) ==
  /\ i \in DOMAIN thunks
  /\ thunks[i].stage = "positionAnswered"
  /\ IF outcome.ok
     THEN /\ thunks' = [thunks EXCEPT ![i] = [stage |-> "reverseGeocode",
                                              position |-> outcome.position]]
          /\ UNCHANGED user
     ELSE /\ thunks' = removeAt(thunks, i)
          /\ user' = fetchAddressRejected(user, outcome.message)
  /\ UNCHANGED typedAddress
  /\ UNCHANGED cartOrderVars
  /\ UNCHANGED routeVars

\* the geocoding service answers operation i
GeocoderAnswers(i) ==
  /\ i \in DOMAIN thunks
  /\ thunks[i].stage = "reverseGeocode"
  /\ thunks' = [thunks EXCEPT ![i].stage = "addressAnswered"]
  /\ UNCHANGED <<user, typedAddress>>
  /\ UNCHANGED cartOrderVars
  /\ UNCHANGED routeVars

\* fetchAddress resumes with the answer of the geocoding service
FetchAddressAfterAddress(i, outcome) ==
  /\ i \in DOMAIN thunks
  /\ thunks[i].stage = "addressAnswered"
  /\ thunks' = removeAt(thunks, i)
  /\ IF outcome.ok
     THEN user' = fetchAddressFulfilled(user, [position |-> thunks[i].position,
                                               address |-> outcome.address])
     ELSE user' = fetchAddressRejected(user, outcome.message)
  /\ UNCHANGED typedAddress
  /\ UNCHANGED cartOrderVars
  /\ UNCHANGED routeVars

\* the POST of createOrder is answered
ApiAnswers(outcome) ==
  /\ navigation = "submitting"
  /\ response = NoResponse
  /\ response' = outcome
  /\ UNCHANGED <<cart, dispatchError, navigation, request, apiCalls, actionResult>>
  /\ UNCHANGED userVars
  /\ UNCHANGED routeVars

\* a createOrderAction that resumes only when the order was created
CreateOrderActionResumes_onSuccessOnly ==
  /\ navigation = "submitting"
  /\ response.type = "ok"
  /\ \E next \in {createOrderAction_resume(apiCalls, response)} :
         /\ navigation' = next.navigation
         /\ apiCalls' = next.apiCalls
         /\ actionResult' = next.actionResult
  /\ UNCHANGED <<cart, dispatchError, request, response>>
  /\ UNCHANGED userVars
  /\ UNCHANGED routeVars

\* createOrderAction resumes with the answer and runs to its end
CreateOrderActionResumes ==
  /\ navigation = "submitting"
  /\ response # NoResponse
  /\ \E next \in {createOrderAction_resume(apiCalls, response)} :
         /\ navigation' = next.navigation
         /\ apiCalls' = next.apiCalls
         /\ actionResult' = next.actionResult
  /\ UNCHANGED <<cart, dispatchError, request, response>>
  /\ UNCHANGED userVars
  /\ UNCHANGED routeVars

\* the steps that answer an operation
NextAnswers ==
  \/ \E i \in DOMAIN thunks : GeolocationAnswers(i)
  \/ \E i \in DOMAIN thunks : GeocoderAnswers(i)
  \/ \E outcome \in ApiOutcomes : ApiAnswers(outcome)

\* the continuations that take an answer
FetchAddressResumes ==
  \/ \E i \in DOMAIN thunks, outcome \in AcquirePositionOutcomes :
       FetchAddressAfterPosition(i, outcome)
  \/ \E i \in DOMAIN thunks, outcome \in ReverseGeocodeOutcomes :
       FetchAddressAfterAddress(i, outcome)

NextLive ==
  \/ FetchAddress
  \/ \E customer \in Customers, phone \in PhoneInputs, address \in Addresses,
        priorityChecked \in BOOLEAN :
       SubmitOrder(customer, phone, address, priorityChecked)
  \/ NextAnswers
  \/ FetchAddressResumes
  \/ CreateOrderActionResumes

\* the event loop runs a continuation whose answer has arrived; nothing
\* makes a service answer
SpecLive ==
  /\ Init
  /\ [][NextLive]_vars
  /\ WF_thunks(FetchAddressResumes)
  /\ WF_navigation(CreateOrderActionResumes)

(***************************************************************************)
(* Properties.                                                             *)
(***************************************************************************)
ApiFailures == {"notOk", "networkError", "badJson"}

\* C1: whatever sequence of increaseItemQuantity / decreaseItemQuantity has
\* been applied, every item in the cart has totalPrice = quantity * unitPrice.
C1_TotalPriceIsQuantityTimesUnitPrice ==
  \A i \in DOMAIN cart : cart[i].totalPrice = cart[i].quantity * cart[i].unitPrice

\* an item that was increased next to an item that was decreased
C1_Witness ==
  \E i, j \in DOMAIN cart : cart[i].quantity > 1 /\ cart[j].quantity < 1

\* C2: decreaseItemQuantity on an item of quantity 1 removes the item, and
\* no reachable cart holds an item of quantity 0.
C2_DecreaseToZeroRemovesItem ==
  [][ /\ \A p \in PizzaIds :
           ( /\ find(cart, p) # 0
             /\ cart[find(cart, p)].quantity = 1
             /\ DecreaseItemQuantity(p) )
           => \A i \in DOMAIN cart' : cart'[i].pizzaId # p
      /\ \A i \in DOMAIN cart' : cart'[i].quantity # 0 ]_vars

\* C3: every item of every reachable cart has quantity >= 0.
C3_QuantityNeverNegative ==
  \A i \in DOMAIN cart : cart[i].quantity >= 0

\* C4: no two entries of a reachable cart have the same pizzaId.
C4_PizzaIdUniqueInCart ==
  \A i, j \in DOMAIN cart : cart[i].pizzaId = cart[j].pizzaId => i = j

\* C5: a submission whose phone fails isValidPhone ends with an errors map
\* that has a phone message, and the order-creation API was not called.
C5_InvalidPhoneReturnsErrorsWithoutApiCall ==
  (Len(request) = 1 /\ ~isValidPhone(request[1].phone))
    => /\ actionResult.kind = "errors"
       /\ \E e \in actionResult.value : e[1] = "phone" /\ e[2] = phoneMessage
       /\ apiCalls = <<>>
       /\ response = NoResponse
       /\ navigation = "idle"

\* the phone "123" was submitted
C5_Witness ==
  /\ Len(request) = 1
  /\ request[1].phone = <<"1", "2", "3">>
  /\ actionResult.kind = "errors"

\* C6: the cart of the order handed to the order-creation API is the cart
\* of the store at the moment the form is submitted.
C6_PayloadCartIsStoreCart ==
  [][ (navigation = "idle" /\ navigation' = "submitting")
        => apiCalls'[1].cart = cart ]_vars

\* C7: when the order-creation API returns an order, the cart of the store
\* is empty.
C7_CartEmptyAfterSuccessfulOrder ==
  [][ (navigation = "submitting" /\ actionResult'.kind = "redirect")
        => cart' = <<>> ]_vars

\* C8: a failed order-creation call (non-success status, failed request,
\* unreadable body) ends the submission in the one generic error, which is
\* neither an errors map nor a redirect; a finished submission ended in
\* exactly one of errors map, generic error, redirect.
C8_ApiFailureIsOneGenericError ==
  /\ response.type \in ApiFailures
       => /\ actionResult.kind = "thrown"
          /\ actionResult.value = {<<"message", "Failed creating your order">>}
  /\ actionResult.kind = "thrown"
       => response.type \in ApiFailures /\ isValidPhone(request[1].phone)
  /\ (Len(request) = 1 /\ navigation = "idle")
       => actionResult.kind \in {"errors", "thrown", "redirect"}

\* a valid submission answered with a non-success status
C8_Witness ==
  /\ response.type = "notOk"
  /\ isValidPhone(request[1].phone)
  /\ actionResult.kind = "thrown"

\* C9: when the API returns an order with id X the action produces the
\* navigation target /order/X, and it produces one in no other case.
C9_RedirectToCreatedOrder ==
  /\ \A id \in OrderIds :
       (response.type = "ok" /\ response.id = id)
         => /\ actionResult.kind = "redirect"
            /\ actionResult.value = {<<"location", "/order/" \o id>>}
  /\ actionResult.kind = "redirect"
       => response.type = "ok" /\ isValidPhone(request[1].phone)

\* the API created order ORD-1
C9_Witness ==
  /\ response.type = "ok"
  /\ response.id = "ORD-1"
  /\ actionResult.kind = "redirect"

\* C10: a submission calls the order-creation API at most once; a failed
\* call finishes the submission and nothing is called while or after it
\* settles, until the form is submitted again.
C10_AtMostOneApiCallPerSubmission ==
  [][ /\ Len(apiCalls') <= 1
      /\ navigation = "submitting" => apiCalls' = apiCalls
      /\ response'.type \in ApiFailures => navigation' = "idle" ]_vars

\* a submission whose one call failed
C10_Witness ==
  /\ response.type \in ApiFailures
  /\ Len(apiCalls) = 1
  /\ navigation = "idle"

\* sum of f over the entries of the cart whose index is in the set idx
RECURSIVE SumOver(_, _)
SumOver(f, idx) ==
  IF idx = {} THEN 0
  ELSE LET i == CHOOSE j \in idx : TRUE
       IN  f[i] + SumOver(f, idx \ {i})

\* C11: getTotalCartQuantity is the sum of the items' quantity fields and
\* getTotalCartPrice the sum of their totalPrice fields; both are 0 for the
\* empty cart.
C11_TotalsAreSumsOverItems ==
  /\ getTotalCartQuantity(stateOf(cart))
       = SumOver([i \in DOMAIN cart |-> cart[i].quantity], DOMAIN cart)
  /\ getTotalCartPrice(stateOf(cart))
       = SumOver([i \in DOMAIN cart |-> cart[i].totalPrice], DOMAIN cart)
  /\ cart = <<>>
       => getTotalCartQuantity(stateOf(cart)) = 0 /\ getTotalCartPrice(stateOf(cart)) = 0

\* two different pizzas, one of them twice
C11_Witness ==
  /\ Len(cart) = 2
  /\ cart[1].pizzaId # cart[2].pizzaId
  /\ cart[1].quantity = 2
  /\ getTotalCartQuantity(stateOf(cart)) = 3

\* C12: JSON.parse of JSON.stringify of a cart is the cart: same length,
\* same order, and the same pizzaId, quantity, unitPrice and totalPrice in
\* every item; so the order built by createOrderAction carries the cart the
\* form serialized.
C12_CartSurvivesJsonRoundTrip ==
  /\ \E parsed \in {JSONparse(JSONstringify(cart))} :
       /\ Len(parsed) = Len(cart)
       /\ \A i \in DOMAIN cart :
            /\ parsed[i].pizzaId = cart[i].pizzaId
            /\ parsed[i].quantity = cart[i].quantity
            /\ parsed[i].unitPrice = cart[i].unitPrice
            /\ parsed[i].totalPrice = cart[i].totalPrice
  /\ Len(apiCalls) = 1 => apiCalls[1].cart = fakeCart

\* a cart of two items, one with a negative quantity, while an order built
\* from the hidden field is with the API
C12_Witness ==
  /\ Len(cart) = 2
  /\ cart[2].quantity < 0
  /\ Len(apiCalls) = 1

\* number of entries of c before index i whose pizzaId is p
Before(c, i, p) == Cardinality({ j \in 1 .. (i - 1) : c[j].pizzaId = p })

C15_ClearCartIsIdempotent ==
  [][ ClearCart
        => /\ cart' = <<>>
           /\ clearCart(cart') = <<>>
           /\ clearCart(clearCart(cart)) = clearCart(cart) ]_vars

\* a full cart to clear
C15_Witness ==
  /\ Len(cart) = MaxCartLen
  /\ clearCart(cart) # cart

(***************************************************************************)
(* Properties of the user slice, checked under SpecUser.                   *)
(***************************************************************************)
\* the object has the key, whatever its value
has(object, key) == \E e \in object : e[1] = key

\* C16: every fetchAddress first sets status to loading; the status then
\* becomes success exactly when geolocation and reverse geocoding both
\* succeeded, with the position and the address stored, and error when
\* either of them failed; success and error are entered from loading only.
C16_FetchAddressStatusTransitions ==
  [][ /\ FetchAddress => user'.status = "loading"
      /\ \A i \in DOMAIN thunks :
           /\ \A outcome \in AcquirePositionOutcomes :
                AcquirePositionSettles(i, outcome)
                  => IF outcome.ok
                     THEN user'.status = "loading"
                     ELSE user'.status = "error" /\ user'.error = outcome.message
           /\ \A outcome \in ReverseGeocodeOutcomes :
                ReverseGeocodeSettles(i, outcome)
                  => IF outcome.ok
                     THEN /\ user'.status = "success"
                          /\ user'.position = thunks[i].position
                          /\ user'.address = outcome.address
                     ELSE user'.status = "error" /\ user'.error = outcome.message
      /\ (user'.status # user.status /\ user'.status \in {"success", "error"})
           => user.status = "loading"
      /\ (user'.status = "success" /\ user.status # "success")
           => \E i \in DOMAIN thunks : thunks[i].stage = "reverseGeocode"
    ]_vars

\* a fetch that went through both steps and left its result in the store
C16_Witness ==
  /\ user.status = "success"
  /\ user.position \in GeoPositions
  /\ user.address # ""
  /\ thunks = <<>>

\* C17: an address error is stored only while status = error, and starting
\* fetchAddress again from the error state clears it.
C17_ErrorOnlyInErrorStatus ==
  [][ /\ user'.error # "" => user'.status = "error"
      /\ (user.status = "error" /\ FetchAddress)
           => user'.error = "" /\ user'.status = "loading"
    ]_vars

\* a failed fetch whose "Get position" button can be clicked again
C17_Witness ==
  /\ user.status = "error"
  /\ user.error # ""
  /\ getPositionButtonShown(user)
  /\ ~getPositionButtonDisabled(user)

\* C18: the stored position has a latitude exactly when it has a longitude.
C18_LatitudeAndLongitudeTogether ==
  has(user.position, "latitude") <=> has(user.position, "longitude")

\* a stored position with both coordinates
C18_Witness ==
  /\ has(user.position, "latitude")
  /\ has(user.position, "longitude")

\* C19 as stated: the address input accepts input in every state, also
\* while a fetch is pending.
C19_AddressInputAlwaysAcceptsInput ==
  \A text \in AddressTexts : ENABLED TypeAddress(text)

\* C19 amended: the address input accepts input exactly when no fetch is
\* pending; in particular it does after a failed fetch.
C19_AddressInputAcceptsInputUnlessLoading ==
  /\ thunks = <<>> => \A text \in AddressTexts : ENABLED TypeAddress(text)
  /\ thunks # <<>> => \A text \in AddressTexts : ~ENABLED TypeAddress(text)
  /\ errorShown(user) => ~addressInputDisabled(user)

\* an address typed by hand where the fetch has failed
C19_Witness ==
  /\ user.status = "error"
  /\ user.error = "User denied geolocation"
  /\ thunks = <<>>
  /\ typedAddress # ""

\* C20: at most one fetchAddress is in flight, and one is in flight exactly
\* while status = loading, so no earlier fetch can settle after a later one.
C20_AtMostOneFetchInFlight ==
  /\ Len(thunks) <= 1
  /\ thunks # <<>> <=> user.status = "loading"

\* a fetch in flight behind a shown, disabled "Get position" button
C20_Witness ==
  /\ Len(thunks) = 1
  /\ thunks[1].stage = "reverseGeocode"
  /\ getPositionButtonShown(user)
  /\ getPositionButtonDisabled(user)

(***************************************************************************)
(* Properties of the name form and the order route, checked under          *)
(* SpecRoutes.                                                             *)
(***************************************************************************)
\* C21: when the API answers a getOrder with a non-success status, the load
\* fails with an error whose message names the requested id (and no other
\* id), and that error differs in name and message from every error the
\* load fails with when the request itself fails.
C21_OrderNotFoundNamesIdAndDiffersFromNetworkFailure ==
  [][ \A outcome \in AllGetOrderOutcomes :
        GetOrderSettles(outcome)
          => /\ (outcome.t = "response" /\ ~ok(outcome))
                  => /\ orderLoad'.result.kind = "throw"
                     /\ orderLoad'.result.message
                          = "Couldn't find order #" \o orderLoad.orderId
                     /\ \A id \in RouteOrderIds \ {orderLoad.orderId} :
                          orderLoad'.result.message # "Couldn't find order #" \o id
                     /\ \A id \in RouteOrderIds :
                          \A o \in GetOrderOutcomes(id) :
                            o.t = "rejected"
                              => /\ getOrder(id, o).kind = "throw"
                                 /\ getOrder(id, o).name # orderLoad'.result.name
                                 /\ getOrder(id, o).message # orderLoad'.result.message
             /\ outcome.t = "rejected"
                  => /\ orderLoad'.result.kind = "throw"
                     /\ orderLoad'.result.message = outcome.message
    ]_vars

\* the error page of an order the API did not find
C21_Witness ==
  /\ orderLoad.result.kind = "throw"
  /\ orderLoad.result.name = "Error"
  /\ orderLoad.result.message = "Couldn't find order #XYZ"
  /\ location = "/order/XYZ"

\* C24: submitting the name form with an empty name changes neither the
\* stored name nor the page; with a non-empty name the store holds the
\* submitted name when navigate("/menu") runs, so on /menu the stored name
\* is the submitted, non-empty one.
C24_NameStoredBeforeNavigation ==
  [][ /\ SubmitName
        => IF usernameInput = ""
           THEN user' = user /\ location' = location
           ELSE /\ user'.username = usernameInput
                /\ location' = "/menu"
                /\ navigatedWith' = usernameInput
      /\ location' = "/menu"
        => /\ navigatedWith' = user'.username
           /\ user'.username # ""
    ]_vars

\* the menu page reached from the name form
C24_Witness ==
  /\ location = "/menu"
  /\ user.username = "Bo"
  /\ usernameInput = "Bo"
  /\ navigatedWith = "Bo"

(***************************************************************************)
(* Further properties of the cart and the order submission, checked under  *)
(* Spec.                                                                   *)
(***************************************************************************)
\* values a request can carry in its priority field
PriorityValues == {"on", "off", "true", "ON", ""}

\* the form data with its priority field set to v
withPriority(data, v) ==
  [k \in DOMAIN data \cup {"priority"} |-> IF k = "priority" THEN v ELSE data[k]]

\* C22: the priority of the order is true exactly when the priority field
\* of the submitted form data is the string "on"; it is false for every
\* other value and when the field is absent, and the order handed to the
\* API has that priority.
C22_PriorityTrueExactlyWhenOn ==
  \A i \in DOMAIN request :
    /\ \A v \in PriorityValues :
         orderOf(withPriority(request[i], v)).priority = (v = "on")
    /\ "priority" \notin DOMAIN request[i] => ~orderOf(request[i]).priority
    /\ apiCalls # <<>>
         => apiCalls[1].priority
              = ("priority" \in DOMAIN request[i] /\ request[i].priority = "on")

\* an order posted with the priority box checked
C22_Witness ==
  /\ request # <<>>
  /\ "priority" \in DOMAIN request[1]
  /\ apiCalls # <<>>
  /\ apiCalls[1].priority

\* C25: an item added from the menu enters the cart as its last entry with
\* quantity 1 and totalPrice equal to its unitPrice, and no entry of the
\* cart is ever a pizza that the menu marks as sold out.
C25_AddedItemStartsAtOneAndIsNotSoldOut ==
  [][ /\ \A pizza \in Menu :
           HandleAddToCart(pizza)
             => /\ Len(cart') = Len(cart) + 1
                /\ cart'[Len(cart')].pizzaId = pizza.id
                /\ cart'[Len(cart')].quantity = 1
                /\ cart'[Len(cart')].unitPrice = pizza.unitPrice
                /\ cart'[Len(cart')].totalPrice = pizza.unitPrice
                /\ \A i \in DOMAIN cart : cart'[i] = cart[i]
      /\ \A i \in DOMAIN cart' :
           \A pizza \in Menu : pizza.soldOut => cart'[i].pizzaId # pizza.id
    ]_vars

\* a cart that holds just the pizza added to it
C25_Witness ==
  /\ Len(cart) = 1
  /\ cart[1].pizzaId = 12
  /\ cart[1].quantity = 1
  /\ cart[1].totalPrice = cart[1].unitPrice

\* C28: the total quantity of the cart is 0, which hides the cart overview,
\* exactly when the cart has no entries (getIsCartEmpty).
C28_EmptinessTestsAgree ==
  cartOverviewHidden(stateOf(cart)) <=> getIsCartEmpty(stateOf(cart))

\* the order-creation calls that have not been answered yet
inFlight == IF response = NoResponse THEN Len(apiCalls) ELSE 0

\* C29: a form is submitted only while no submission is pending, at most
\* one order-creation call is unanswered at any time, and one is unanswered
\* exactly while the navigation state is submitting.
C29_AtMostOneSubmissionInFlight ==
  [][ /\ request' # request => ~isSubmiting
      /\ inFlight' <= 1
      /\ inFlight' = 1 <=> isSubmiting'
    ]_vars

\* a pending submission: its one call is unanswered
C29_Witness ==
  /\ isSubmiting
  /\ inFlight = 1
  /\ request # <<>>

waitingForAnswer ==
  \/ \E i \in DOMAIN thunks : thunks[i].stage \in {"acquirePosition", "reverseGeocode"}
  \/ isSubmiting /\ response = NoResponse

\* C26 as stated: every fetchAddress leaves status = loading and every
\* submission leaves navigation state submitting, whatever the services do.
C26_EveryOperationResolves ==
  /\ isLoadingAddress(user) ~> ~isLoadingAddress(user)
  /\ isSubmiting ~> ~isSubmiting

\* C26 amended: if no operation waits for an answer forever, every
\* fetchAddress leaves status = loading and every submission leaves
\* navigation state submitting.
C26_OperationsResolveOnceAnswered ==
  ([]<>~waitingForAnswer)
    => /\ isLoadingAddress(user) ~> ~isLoadingAddress(user)
       /\ isSubmiting ~> ~isSubmiting

\* both operations answered, neither continuation run yet
C26_Witness ==
  /\ thunks # <<>>
  /\ thunks[1].stage = "addressAnswered"
  /\ isLoadingAddress(user)
  /\ isSubmiting
  /\ response.type = "networkError"

(***************************************************************************)
(* The user name against the other parts of the store, checked under       *)
(* SpecSession.                                                            *)
(***************************************************************************)
\* C23: the stored user name changes only in an updateName step, which sets
\* it to its payload and leaves the cart as it was; every step that changes
\* the cart, the address fetch or the order submission keeps the name.
C23_OnlyUpdateNameChangesName ==
  [][ /\ user'.username # user.username
           => \E name \in Names : UpdateName(name)
      /\ \A name \in Names :
           UpdateName(name) => user'.username = name /\ cart' = cart
      /\ (\/ cart' # cart
          \/ dispatchError' # dispatchError
          \/ thunks' # thunks
          \/ user'.status # user.status
          \/ navigation' # navigation
          \/ request' # request
          \/ response' # response)
           => user'.username = user.username
    ]_vars

\* a named user with a filled cart, a fetched address and a created order
C23_Witness ==
  /\ user.username = "Ana"
  /\ Len(cart) = MaxCartLen
  /\ user.status = "success"
  /\ response.type = "ok"

====
